---- MODULE Spec2Model ----
(***************************************************************************)
(* The execution control loop of the trading engine: the poll loop of      *)
(* OandaTrader.run_trader (trader.py) and of the module-level run_trader   *)
(* (oanda_live_trader.py), with the venue calls each tick makes.           *)
(*                                                                         *)
(* Units.  Time is in seconds.  A price is an integer number of 1e-6 price *)
(* units (1.10000 is 1100000).  A pip distance is an integer number of     *)
(* tenths of a pip (50 pips is 500), the resolution main.calculate_signals *)
(* yields from five-decimal prices.                                        *)
(*                                                                         *)
(* The signal function is the pluggable collaborator of the loop: its      *)
(* result is an input of the tick (the last row's signal and distances).   *)
(***************************************************************************)
EXTENDS Integers, Sequences, FiniteSets, TLC

VARIABLES
    program,               \* which loop runs: "trader" or "live"
    granularity,           \* the configured bar granularity
    pc,                    \* the loop's position
    now,                   \* the wall clock, in seconds
    ticks,                 \* ticks started so far
    venue,                 \* the venue's open-positions list for the account
    cooldown_active,       \* controller state
    last_trade_exit_time,  \* controller state: None or Some(time)
    open_positions,        \* locals of the tick
    has_position,
    df,
    latest_signal,
    stop_loss_pips,
    take_profit_pips,
    units,
    current_price,
    sl_price,
    tp_price,
    order_data,
    fill_info,
    tick,                  \* history: what the current tick has done
    orders_since_query,    \* history: order requests since the last positions query
    last_fill,             \* history: None or Some(time of the last fill)
    fill_to_order,         \* history: None or Some(seconds from the last fill to the last order request)
    last_class             \* history: Some(has_position of the last positions query) while the
                           \* venue's list is as it was at that query; None otherwise

state == <<cooldown_active, last_trade_exit_time>>

locals == <<open_positions, has_position, df, latest_signal, stop_loss_pips,
            take_profit_pips, units, current_price, sl_price, tp_price, order_data,
            fill_info>>

history == <<tick, orders_since_query, last_fill, fill_to_order, last_class>>

config == <<program, granularity>>

vars == <<config, pc, now, ticks, venue, state, locals, history>>

\* Python's None and a present value.
None == <<>>

Some(x) == <<x>>

-----------------------------------------------------------------------------
\* Bounds of the model.

\* Ticks one run starts.
MaxTicks == 3

-----------------------------------------------------------------------------
\* Configuration and constants of the two programs.

Programs == {"trader", "live"}

instrument == "EUR_USD"

\* The granularity codes the configuration may name.
Granularities == {"M1", "H1", "D"}

OtherInstrument == "USD_JPY"

trade_units == 1000

cooldown_periods == 10

SecondsPerHour == 3600

sleep_duration == 60

cooldown_sleep == 60

data_sleep == 30

fault_sleep == 60

tolerance == 10

buffer == 50

trader_lookback_period == 200

live_lookback_period == 17

live_stop_loss_pips == 500

live_take_profit_pips == 1000

pip_value == 100

PipDen == 10

PriceStep == 10

candles_needed(p) ==
    IF p = "trader" THEN trader_lookback_period + buffer
    ELSE live_lookback_period + buffer

-----------------------------------------------------------------------------
\* Inputs: what the venue and the signal function may answer.

Position(i, l, s) == [instrument |-> i, long |-> l, short |-> s]

PositionLists ==
    { <<>>,
      <<Position(instrument, trade_units, 0)>>,
      <<Position(instrument, 0, -trade_units)>>,
      <<Position(OtherInstrument, trade_units, 0)>>,
      <<Position(OtherInstrument, trade_units, 0), Position(instrument, 0, 0)>> }

\* The answer to an OpenPositions request: the request raises, or the
\* response carries the venue's list.
PositionResponses ==
    { [raised |-> r, positions |-> IF r THEN <<>> ELSE venue] : r \in BOOLEAN }

Prices == {1100000, 1234564}

\* One candle of a response: the venue's complete flag, whether it carries
\* mid prices, and its close.
Bar(c, m, x) == [complete |-> c, mid |-> m, close |-> x]

\* The answer to an InstrumentsCandles request: the request raises, or the
\* response carries `head` complete candles with mid prices followed by the
\* candles of `bars`, its last ones, which are spelled out.
Candles(r, h, bs) == [raised |-> r, head |-> h, bars |-> bs]

\* The numbers of usable candles a full-length response may hold.
BarCounts(count) == {0, 5, count - tolerance - 1, count - tolerance, count}

\* Last candles with one that is not usable: the forming bar at the end, or a
\* candle without mid prices.
FormingTails ==
    { <<Bar(TRUE, TRUE, 1100000), Bar(FALSE, TRUE, 1234564)>>,
      <<Bar(TRUE, FALSE, 1100000), Bar(TRUE, TRUE, 1234564)>> }

CandleResponses(count) ==
    { Candles(TRUE, 0, <<>>), Candles(FALSE, 0, <<>>),
      Candles(FALSE, 0, <<Bar(FALSE, TRUE, 1100000)>>) }
    \cup { Candles(FALSE, u - 2, <<Bar(TRUE, TRUE, 1234564), Bar(TRUE, TRUE, 1100000)>>) :
              u \in BarCounts(count) \ {0} }
    \cup { Candles(FALSE, count - tolerance - 1, bs) : bs \in FormingTails }

PriceResponses ==
    { Candles(TRUE, 0, <<>>), Candles(FALSE, 0, <<>>),
      Candles(FALSE, 0, <<Bar(FALSE, TRUE, 1100000)>>),
      Candles(FALSE, 0, <<Bar(TRUE, FALSE, 1100000)>>) }
    \cup { Candles(FALSE, 0, <<Bar(TRUE, TRUE, c)>>) : c \in Prices }

Signals == {-1, 0, 1, 2}

StopDistances == {0, 124, 500}

TargetDistances == {0, 1000}

\* A distance the signal function leaves undefined reads from the last row as
\* float('nan') when its column holds numbers, and as None when it holds none.
\* Both stand outside the distances (non-negative) and the prices (positive).
NaN == -1

NoDistance == -2

\* Rows with an undefined distance: a stop on the wrong side of the close
\* leaves the target undefined; a missing swing level leaves both undefined.
UndefinedRows ==
    {<<124, NaN>>, <<124, NoDistance>>, <<NaN, NaN>>, <<NoDistance, NoDistance>>}

\* The pairs (stop_loss_pips, take_profit_pips) of a row with an entry signal.
RowDistances ==
    (StopDistances \X TargetDistances) \cup UndefinedRows

\* A row of the enriched series: what the signal function wrote for one bar.
Row(s, sl, tp) == [signal |-> s, stop_loss_pips |-> sl, take_profit_pips |-> tp]

\* The row before the last one: no signal, or an entry of its own.
EarlierRows == {Row(0, 0, 0), Row(1, 500, 1000)}

OrderResponses == {"fill", "cancel", "other", "raise"}

-----------------------------------------------------------------------------
\* The venue adapters (pure parts).

\* A loop over the candles that keeps every one of them.
CompleteBars_Unfiltered(data) ==
    data

\* for candle in data: if complete and 'mid' in candle: records.append(rec)
CompleteBars(data) ==
    SelectSeq(data, LAMBDA b : b.complete /\ b.mid)

\* get_latest_candles: None when the request raises or the response holds no
\* candles; otherwise the frame of the usable bars (its length, its last
\* row's close, and its last rows).  With no usable bar the frame is empty in
\* trader.py, while oanda_live_trader.py calls set_index on the empty frame,
\* which raises KeyError inside the function's own try and makes it return
\* None.
get_latest_candles(p, r) ==
    LET records == CompleteBars(r.bars)
        n == r.head + Len(records)
    IN  IF r.raised \/ (r.head = 0 /\ r.bars = <<>>) THEN None
        ELSE IF n = 0
             THEN IF p = "trader" THEN Some([len |-> 0, close |-> 0, bars |-> <<>>])
                  ELSE None
             ELSE Some([len |-> n, close |-> records[Len(records)].close,
                        bars |-> records])

\* if candles is None or candles.empty: return None
NoPrice_NoneOnly(candles) ==
    candles = None

NoPrice(candles) ==
    candles = None \/ candles[1].len = 0

\* get_open_positions: the response's list; [] when the request raises.
get_open_positions(r) ==
    IF r.raised THEN <<>> ELSE r.positions

\* A scan that takes an entry of the instrument only with units in it.
HasPosition_NonzeroUnits(ps) ==
    \E i \in 1..Len(ps) :
       ps[i].instrument = instrument /\ (ps[i].long # 0 \/ ps[i].short # 0)

\* The scan of the list for an entry of the configured instrument.
HasPosition(ps) ==
    \E i \in 1..Len(ps) : ps[i].instrument = instrument

\* A position check that goes on to the signals whatever it found.
PositionBranch_Ungated(hp) ==
    "candles"

\* What follows the position check.
PositionBranch(hp) ==
    IF hp THEN "sleep" ELSE "candles"

\* df is None or len(df) < candles_needed - 10
Insufficient(d, needed) ==
    d = None \/ d[1].len < needed - tolerance

\* A data check that tests only for a missing frame, not for its length.
DataBranch_NoLength(d, needed) ==
    IF d = None THEN "data_sleep" ELSE "signals"

\* What follows the data check.
DataBranch(d, needed) ==
    IF Insufficient(d, needed) THEN "data_sleep" ELSE "signals"

-----------------------------------------------------------------------------
\* place_order (pure parts).

\* A stop on the long side's side of the price for both directions.
stop_price_LongOnly(u, price, sl) ==
    IF sl = NaN THEN NaN
    ELSE price - (sl * pip_value) \div PipDen

\* sl_price and tp_price; arithmetic on float('nan') gives float('nan').
stop_price(u, price, sl) ==
    IF sl = NaN THEN NaN
    ELSE IF u > 0 THEN price - (sl * pip_value) \div PipDen
    ELSE price + (sl * pip_value) \div PipDen

target_price(u, price, tp) ==
    IF tp = NaN THEN NaN
    ELSE IF u > 0 THEN price + (tp * pip_value) \div PipDen
    ELSE price - (tp * pip_value) \div PipDen

\* f"{x:.5f}": the price rounded to five decimals (half to even), as the
\* number of 1e-5 units the string spells; "nan" for float('nan').
Format5(x) ==
    LET q == x \div PriceStep
        r == x % PriceStep
    IN  IF x = NaN THEN NaN
        ELSE IF 2 * r > PriceStep THEN q + 1
        ELSE IF 2 * r < PriceStep THEN q
        ELSE IF q % 2 = 0 THEN q ELSE q + 1

OrderRequest(i, u, sl, tp) ==
    [instrument |-> i, units |-> u,
     stopLossOnFill |-> Format5(sl),
     takeProfitOnFill |-> Format5(tp)]

\* A classification that takes any transaction in the answer for a fill.
ClassifyResponse_AnyTransaction(resp, u) ==
    IF resp \in {"fill", "cancel"} THEN Some([units |-> u]) ELSE None

\* The classification of the venue's answer: the fill transaction, or None.
ClassifyResponse(resp, u) ==
    IF resp = "fill" THEN Some([units |-> u]) ELSE None

\* A place_order that sends the request again when the answer is unclear or
\* the request raised.
RequestBranch_RetryUnclear(resp) ==
    IF resp \in {"other", "raise"} THEN "submit" ELSE "result"

\* Where place_order goes after the request's answer: it returns.
RequestBranch(resp) ==
    "result"

\* The venue's list after a fill: the instrument's position, if it had none.
VenueAfterFill(v, u) ==
    IF \E i \in 1..Len(v) : v[i].instrument = instrument THEN v
    ELSE IF u > 0 THEN Append(v, Position(instrument, u, 0))
    ELSE Append(v, Position(instrument, 0, u))

-----------------------------------------------------------------------------
\* The controller (pure parts).

\* Whether the loop's reading of the clock raises.  trader.py does
\* `from datetime import datetime` and then evaluates datetime.datetime...,
\* an attribute the class does not have (AttributeError);
\* oanda_live_trader.py calls datetime.utcnow().
utc_now_raises(p) ==
    p = "trader"

cooldown_end_time(t) ==
    t + cooldown_periods * SecondsPerHour

\* The cooldown check at the top of the tick: where the tick goes and the
\* controller state it leaves.  None + timedelta(...) raises TypeError.
CooldownBranch(p, active, exit_time, t) ==
    IF ~active
    THEN [pc |-> "positions", cooldown_active |-> active, last_trade_exit_time |-> exit_time]
    ELSE IF exit_time = None \/ utc_now_raises(p)
    THEN [pc |-> "except", cooldown_active |-> active, last_trade_exit_time |-> exit_time]
    ELSE IF t >= cooldown_end_time(exit_time[1])
    THEN [pc |-> "positions", cooldown_active |-> FALSE, last_trade_exit_time |-> None]
    ELSE [pc |-> "cooldown_sleep", cooldown_active |-> active, last_trade_exit_time |-> exit_time]

\* A read of the row before the last one.
iloc_first(frame) ==
    frame.earlier

\* df[...].iloc[-1]: the last row of the enriched series.  The frame holds
\* its last row's columns next to the row before it.
iloc_last(frame) ==
    Row(frame.signal, frame.stop_loss_pips, frame.take_profit_pips)

\* An entry for every nonzero signal: long unless the signal is -1.
EntryUnits_AnyNonzero(sig) ==
    IF sig = -1 THEN -trade_units
    ELSE IF sig # 0 THEN trade_units
    ELSE 0

\* The units of the entry the signal asks for; 0 for no entry.
EntryUnits(sig) ==
    IF sig = 1 THEN trade_units
    ELSE IF sig = -1 THEN -trade_units
    ELSE 0

\* The row's target distance handed over as the stop distance.
EntryStop_Swapped(p, row) ==
    IF p = "trader" THEN row.take_profit_pips ELSE live_take_profit_pips

\* The distances handed to place_order: the last row's in trader.py, the
\* configured ones in oanda_live_trader.py.
EntryStop(p, row) ==
    IF p = "trader" THEN row.stop_loss_pips ELSE live_stop_loss_pips

EntryTarget(p, row) ==
    IF p = "trader" THEN row.take_profit_pips ELSE live_take_profit_pips

\* float(df[...].iloc[-1]) raises TypeError for None; float('nan') passes.
\* oanda_live_trader.py does not read the row's distances.
EntryRaises(p, row) ==
    /\ p = "trader"
    /\ \/ row.stop_loss_pips = NoDistance
       \/ row.take_profit_pips = NoDistance

\* A result handling that enters the fill branch whatever place_order returned.
FillBranch_Unchecked(p, fi, active, exit_time, t) ==
    IF p = "live"
    THEN [pc |-> "sleep", cooldown_active |-> active, last_trade_exit_time |-> exit_time]
    ELSE IF utc_now_raises(p)
    THEN [pc |-> "except", cooldown_active |-> active, last_trade_exit_time |-> exit_time]
    ELSE [pc |-> "sleep", cooldown_active |-> TRUE, last_trade_exit_time |-> Some(t)]

\* A result handling that calls place_order again at once when it returned None.
FillBranch_Retry(p, fi, active, exit_time, t) ==
    IF fi = None
    THEN [pc |-> "price", cooldown_active |-> active, last_trade_exit_time |-> exit_time]
    ELSE IF p = "live"
    THEN [pc |-> "sleep", cooldown_active |-> active, last_trade_exit_time |-> exit_time]
    ELSE IF utc_now_raises(p)
    THEN [pc |-> "except", cooldown_active |-> active, last_trade_exit_time |-> exit_time]
    ELSE [pc |-> "sleep", cooldown_active |-> TRUE, last_trade_exit_time |-> Some(t)]

\* A result handling that sets cooldown_active and leaves the exit time alone.
FillBranch_NoTimestamp(p, fi, active, exit_time, t) ==
    IF fi = None \/ p = "live"
    THEN [pc |-> "sleep", cooldown_active |-> active, last_trade_exit_time |-> exit_time]
    ELSE [pc |-> "sleep", cooldown_active |-> TRUE, last_trade_exit_time |-> exit_time]

\* A result handling that starts the cooldown in oanda_live_trader.py too.
FillBranch_LiveCooldown(p, fi, active, exit_time, t) ==
    IF fi = None
    THEN [pc |-> "sleep", cooldown_active |-> active, last_trade_exit_time |-> exit_time]
    ELSE IF p = "live"
    THEN [pc |-> "sleep", cooldown_active |-> TRUE, last_trade_exit_time |-> Some(t)]
    ELSE IF utc_now_raises(p)
    THEN [pc |-> "except", cooldown_active |-> active, last_trade_exit_time |-> exit_time]
    ELSE [pc |-> "sleep", cooldown_active |-> TRUE, last_trade_exit_time |-> Some(t)]

\* A result handling that sets cooldown_active before it reads the clock.
FillBranch_AssignFirst(p, fi, active, exit_time, t) ==
    IF fi = None \/ p = "live"
    THEN [pc |-> "sleep", cooldown_active |-> active, last_trade_exit_time |-> exit_time]
    ELSE IF utc_now_raises(p)
    THEN [pc |-> "except", cooldown_active |-> TRUE, last_trade_exit_time |-> exit_time]
    ELSE [pc |-> "sleep", cooldown_active |-> TRUE, last_trade_exit_time |-> Some(t)]

\* The handling of place_order's result: where the tick goes and the
\* controller state it leaves.
FillBranch(p, fi, active, exit_time, t) ==
    IF fi = None \/ p = "live"
    THEN [pc |-> "sleep", cooldown_active |-> active, last_trade_exit_time |-> exit_time]
    ELSE IF utc_now_raises(p)
    THEN [pc |-> "except", cooldown_active |-> active, last_trade_exit_time |-> exit_time]
    ELSE [pc |-> "sleep", cooldown_active |-> TRUE, last_trade_exit_time |-> Some(t)]

\* One sleep length, the poll interval, for every end of a tick.
SleepSeconds_Uniform(at) ==
    sleep_duration

SleepSeconds(at) ==
    IF at = "cooldown_sleep" THEN cooldown_sleep
    ELSE IF at = "data_sleep" THEN data_sleep
    ELSE sleep_duration

-----------------------------------------------------------------------------
\* The state after construction and the steps of the loop.

NewTick ==
    [queried |-> FALSE, query_failed |-> FALSE, fetches |-> 0,
     price_fetches |-> 0, signals |-> 0, orders |-> 0, filled |-> FALSE,
     indicator_failed |-> FALSE, priced |-> FALSE, response |-> "none",
     data |-> <<>>, price_data |-> <<>>,
     start_active |-> FALSE, start_exit |-> None]

Init ==
    /\ program \in Programs
    /\ granularity = "H1"
    /\ pc = "loop"
    /\ now = 0
    /\ ticks = 0
    /\ venue \in PositionLists
    /\ cooldown_active = FALSE
    /\ last_trade_exit_time = None
    /\ open_positions = <<>>
    /\ has_position = FALSE
    /\ df = None
    /\ latest_signal = 0
    /\ stop_loss_pips = 0
    /\ take_profit_pips = 0
    /\ units = 0
    /\ current_price = 0
    /\ sl_price = 0
    /\ tp_price = 0
    /\ order_data = None
    /\ fill_info = None
    /\ tick = NewTick
    /\ orders_since_query = 0
    /\ last_fill = None
    /\ fill_to_order = None
    /\ last_class = None

\* The end of a tick.  The tick's locals are all assigned again before the
\* next tick reads them, so they are cleared here.
EndTick ==
    /\ pc' = "loop"
    /\ open_positions' = <<>>
    /\ has_position' = FALSE
    /\ df' = None
    /\ latest_signal' = 0
    /\ stop_loss_pips' = 0
    /\ take_profit_pips' = 0
    /\ units' = 0
    /\ current_price' = 0
    /\ sl_price' = 0
    /\ tp_price' = 0
    /\ order_data' = None
    /\ fill_info' = None
    /\ tick' = NewTick

\* while True: / if cooldown_active: ...
CooldownCheck ==
    /\ pc = "loop"
    /\ ticks < MaxTicks
    /\ ticks' = ticks + 1
    /\ LET b == CooldownBranch(program, cooldown_active, last_trade_exit_time, now)
       IN  /\ pc' = b.pc
           /\ cooldown_active' = b.cooldown_active
           /\ last_trade_exit_time' = b.last_trade_exit_time
    /\ tick' = [tick EXCEPT !.start_active = cooldown_active,
                            !.start_exit = last_trade_exit_time]
    /\ UNCHANGED <<config, now, venue, locals, orders_since_query, last_fill,
                   fill_to_order,
                   last_class>>

\* open_positions = get_open_positions() and the scan for the instrument.
CheckPosition ==
    /\ pc = "positions"
    /\ \E r \in PositionResponses :
          /\ open_positions' = get_open_positions(r)
          /\ has_position' = HasPosition(get_open_positions(r))
          /\ tick' = [tick EXCEPT !.queried = TRUE, !.query_failed = r.raised]
          /\ pc' = PositionBranch(HasPosition(get_open_positions(r)))
          /\ last_class' = Some(HasPosition(get_open_positions(r)))
    /\ orders_since_query' = 0
    /\ UNCHANGED <<config, now, ticks, venue, state, df, latest_signal, stop_loss_pips,
                   take_profit_pips, units, current_price, sl_price, tp_price,
                   order_data, fill_info, last_fill, fill_to_order>>

\* df = get_latest_candles(instrument, candles_needed, granularity)
FetchCandles ==
    /\ pc = "candles"
    /\ \E r \in CandleResponses(candles_needed(program)) :
          /\ df' = get_latest_candles(program, r)
          /\ tick' = [tick EXCEPT !.fetches = @ + 1, !.data = r.bars]
    /\ pc' = "data"
    /\ UNCHANGED <<config, now, ticks, venue, state, open_positions, has_position,
                   latest_signal, stop_loss_pips, take_profit_pips, units,
                   current_price, sl_price, tp_price, order_data, fill_info,
                   orders_since_query, last_fill, fill_to_order,
                   last_class>>

\* if df is None or len(df) < candles_needed - 10: ... sleep(30); continue
CheckData ==
    /\ pc = "data"
    /\ pc' = DataBranch(df, candles_needed(program))
    /\ UNCHANGED <<config, now, ticks, venue, state, locals, history>>

\* The indicators and the signal function, then latest_signal =
\* df['signal'].iloc[-1].  apply_indicators logs an indicator's exception and
\* goes on, and the signal function is called on the frame it returns.  An
\* exception of the signal function reaches the loop's handler.
ComputeSignals ==
    /\ pc = "signals"
    /\ \E indicator_raised \in BOOLEAN :
          tick' = [tick EXCEPT !.signals = @ + 1, !.indicator_failed = indicator_raised]
    /\ \E raised \in BOOLEAN, s \in Signals, d \in RowDistances, e \in EarlierRows :
          IF raised
          THEN /\ s = 0 /\ d = <<0, 0>> /\ e = Row(0, 0, 0)
               /\ pc' = "except"
               /\ UNCHANGED <<df, latest_signal>>
          ELSE /\ (s \notin {1, -1}) => (d = <<0, 0>>)
               /\ df' = Some([len |-> df[1].len, close |-> df[1].close,
                              bars |-> df[1].bars, earlier |-> e, signal |-> s,
                              stop_loss_pips |-> d[1], take_profit_pips |-> d[2]])
               /\ latest_signal' = iloc_last(df'[1]).signal
               /\ pc' = "entry"
    /\ UNCHANGED <<config, now, ticks, venue, state, open_positions, has_position,
                   stop_loss_pips, take_profit_pips, units, current_price, sl_price,
                   tp_price, order_data, fill_info, orders_since_query, last_fill,
                   fill_to_order,
                   last_class>>

\* if latest_signal == 1: ... elif latest_signal == -1: ... else: ...
\* up to the call of place_order.
EntrySignal ==
    /\ pc = "entry"
    /\ IF EntryUnits(latest_signal) # 0 /\ EntryRaises(program, iloc_last(df[1]))
       THEN /\ pc' = "except"
            /\ UNCHANGED <<units, stop_loss_pips, take_profit_pips>>
       ELSE IF EntryUnits(latest_signal) # 0
       THEN /\ units' = EntryUnits(latest_signal)
            /\ stop_loss_pips' = EntryStop(program, iloc_last(df[1]))
            /\ take_profit_pips' = EntryTarget(program, iloc_last(df[1]))
            /\ pc' = "price"
       ELSE /\ pc' = "sleep"
            /\ UNCHANGED <<units, stop_loss_pips, take_profit_pips>>
    /\ UNCHANGED <<config, now, ticks, venue, state, open_positions, has_position,
                   df, latest_signal, current_price, sl_price, tp_price, order_data,
                   fill_info, history>>

\* place_order: candles = get_latest_candles(instrument, 1, "S5"); return
\* None without a price, and for zero units.
ReferencePrice ==
    /\ pc = "price"
    /\ \E r \in PriceResponses :
          LET candles == get_latest_candles(program, r)
          IN  IF NoPrice(candles) \/ units = 0
              THEN /\ fill_info' = None
                   /\ pc' = "result"
                   /\ tick' = [tick EXCEPT !.price_fetches = @ + 1,
                                           !.price_data = r.bars]
                   /\ UNCHANGED current_price
              ELSE /\ current_price' = candles[1].close
                   /\ pc' = "submit"
                   /\ tick' = [tick EXCEPT !.price_fetches = @ + 1, !.priced = TRUE,
                                           !.price_data = r.bars]
                   /\ UNCHANGED fill_info
    /\ UNCHANGED <<config, now, ticks, venue, state, open_positions, has_position,
                   df, latest_signal, stop_loss_pips, take_profit_pips, units, sl_price,
                   tp_price, order_data, orders_since_query, last_fill, fill_to_order,
                   last_class>>

\* place_order: the OrderCreate request and the classification of its answer.
OrderCreate ==
    /\ pc = "submit"
    /\ sl_price' = stop_price(units, current_price, stop_loss_pips)
    /\ tp_price' = target_price(units, current_price, take_profit_pips)
    /\ order_data' = Some(OrderRequest(instrument, units, sl_price', tp_price'))
    /\ orders_since_query' = orders_since_query + 1
    /\ fill_to_order' = IF last_fill = None THEN None ELSE Some(now - last_fill[1])
    /\ \E resp \in OrderResponses :
          /\ fill_info' = ClassifyResponse(resp, units)
          /\ tick' = [tick EXCEPT !.orders = @ + 1, !.filled = (resp = "fill"),
                                  !.response = resp]
          /\ pc' = RequestBranch(resp)
          /\ last_fill' = IF resp = "fill" THEN Some(now) ELSE last_fill
          /\ venue' = IF resp = "fill" THEN VenueAfterFill(venue, units) ELSE venue
          /\ last_class' = IF venue' = venue THEN last_class ELSE None
    /\ UNCHANGED <<config, now, ticks, state, open_positions, has_position, df,
                   latest_signal, stop_loss_pips, take_profit_pips, units, current_price>>

\* if fill_info: ...
AfterOrder ==
    /\ pc = "result"
    /\ LET b == FillBranch(program, fill_info, cooldown_active, last_trade_exit_time, now)
       IN  /\ pc' = b.pc
           /\ cooldown_active' = b.cooldown_active
           /\ last_trade_exit_time' = b.last_trade_exit_time
    /\ UNCHANGED <<config, now, ticks, venue, locals, history>>

\* time.sleep(...) at the end of the tick, in cooldown and after insufficient
\* data.
Sleep ==
    /\ pc \in {"sleep", "data_sleep", "cooldown_sleep"}
    /\ now' = now + SleepSeconds(pc)
    /\ EndTick
    /\ UNCHANGED <<config, ticks, venue, state, orders_since_query, last_fill, fill_to_order,
                   last_class>>

\* A handler that lets the exception leave the loop.
FaultBackoff_Reraise ==
    /\ pc = "except"
    /\ pc' = "crashed"
    /\ UNCHANGED <<config, now, ticks, venue, state, locals, history>>

\* except Exception: log; time.sleep(60)
FaultBackoff ==
    /\ pc = "except"
    /\ now' = now + fault_sleep
    /\ EndTick
    /\ UNCHANGED <<config, ticks, venue, state, orders_since_query, last_fill, fill_to_order,
                   last_class>>

TryBody ==
    {"loop", "positions", "candles", "data", "signals", "entry", "price", "submit",
     "result", "sleep", "data_sleep", "cooldown_sleep"}

\* except KeyboardInterrupt: log; break
KeyboardInterrupt ==
    /\ pc \in TryBody
    /\ pc' = "stopped"
    /\ UNCHANGED <<config, now, ticks, venue, state, locals, history>>

\* An interrupt during the handler's own sleep is outside the try: it leaves
\* run_trader as an exception.
InterruptInHandler ==
    /\ pc = "except"
    /\ pc' = "crashed"
    /\ UNCHANGED <<config, now, ticks, venue, state, locals, history>>

\* The venue's list changes between ticks (a bracket leg closes the position,
\* another actor trades on the account).  A change during a tick shows to the
\* loop only at its next positions query, so it is taken here.
VenueChange ==
    /\ pc = "loop"
    /\ ticks < MaxTicks
    /\ venue' \in PositionLists \ {venue}
    /\ last_class' = None
    /\ UNCHANGED <<config, pc, now, ticks, state, locals, tick, orders_since_query,
                   last_fill, fill_to_order>>

Next ==
    \/ CooldownCheck
    \/ CheckPosition
    \/ FetchCandles
    \/ CheckData
    \/ ComputeSignals
    \/ EntrySignal
    \/ ReferencePrice
    \/ OrderCreate
    \/ AfterOrder
    \/ Sleep
    \/ FaultBackoff
    \/ KeyboardInterrupt
    \/ InterruptInHandler
    \/ VenueChange

Spec == Init /\ [][Next]_vars

\* The loop left to run: no operator interrupt arrives.  The loop is one
\* sequential thread whose calls and sleeps return, so a step that can be
\* taken is taken.
Step ==
    \/ CooldownCheck
    \/ CheckPosition
    \/ FetchCandles
    \/ CheckData
    \/ ComputeSignals
    \/ EntrySignal
    \/ ReferencePrice
    \/ OrderCreate
    \/ AfterOrder
    \/ Sleep
    \/ FaultBackoff

Run ==
    \/ Step
    \/ VenueChange

RunSpec == Init /\ [][Run]_vars /\ WF_vars(Step)

\* The clock readings at which a tick that starts in cooldown is looked at,
\* for a cooldown that started at time 0: at its start, one minute-bar
\* cooldown later, one cooldown sleep before cooldown_periods hours, and at
\* cooldown_periods hours.
CooldownStarts ==
    {0, cooldown_periods * cooldown_sleep,
     cooldown_end_time(0) - cooldown_sleep, cooldown_end_time(0)}

\* The loop entered with the controller's two cooldown attributes as given:
\* either as constructed, or in cooldown since time 0.  Neither loop ever
\* assigns cooldown_active = True itself (trader.py:242 raises before the
\* assignment, oanda_live_trader.py has no such assignment), so the cooldown
\* branch at the top of the tick is only entered from attributes given to it.
InitCooldown ==
    /\ program \in Programs
    /\ pc = "loop"
    /\ ticks = 0
    /\ venue = <<>>
    /\ \/ /\ cooldown_active = FALSE
          /\ last_trade_exit_time = None
          /\ now = 0
          /\ granularity = "H1"
       \/ /\ cooldown_active = TRUE
          /\ last_trade_exit_time = Some(0)
          /\ now \in CooldownStarts
          /\ granularity \in Granularities
    /\ open_positions = <<>>
    /\ has_position = FALSE
    /\ df = None
    /\ latest_signal = 0
    /\ stop_loss_pips = 0
    /\ take_profit_pips = 0
    /\ units = 0
    /\ current_price = 0
    /\ sl_price = 0
    /\ tp_price = 0
    /\ order_data = None
    /\ fill_info = None
    /\ tick = NewTick
    /\ orders_since_query = 0
    /\ last_fill = None
    /\ fill_to_order = None
    /\ last_class = None

CooldownSpec == InitCooldown /\ [][Next]_vars

-----------------------------------------------------------------------------
\* The claims.

\* The positions list read in this tick holds an entry of the instrument.
EntryForInstrument ==
    /\ tick.queried
    /\ \E i \in DOMAIN open_positions : open_positions[i].instrument = instrument

\* The frame fetched in this tick is missing or shorter than
\* lookback_period + buffer - 10.
ShortFrame ==
    /\ tick.fetches > 0
    /\ \/ df = None
       \/ df[1].len < candles_needed(program) - 10

\* The signal function has returned in this tick.
RowComputed ==
    df # None /\ "signal" \in DOMAIN df[1]

CooldownSeconds == cooldown_periods * SecondsPerHour

Abs(x) == IF x < 0 THEN -x ELSE x

\* C1: in a tick whose positions query returned an entry of the configured
\* instrument, the loop makes no candle fetch, no signal evaluation and no
\* order request.
C1_InPositionGating ==
    EntryForInstrument =>
        /\ tick.fetches = 0
        /\ tick.price_fetches = 0
        /\ tick.signals = 0
        /\ tick.orders = 0

C1_Witness ==
    /\ EntryForInstrument
    /\ pc = "sleep"
    /\ ticks = 2

\* C2: a tick of OandaTrader.run_trader in which the positions query
\* succeeded and the order was filled ends in Cooldown: cooldown_active is
\* True and last_trade_exit_time is the time of the fill.
C2_CooldownAfterFill ==
    (program = "trader" /\ tick.filled /\ ~tick.query_failed /\ pc \in {"sleep", "except"}) =>
        (cooldown_active /\ last_trade_exit_time = last_fill)

\* C3: a tick that finds the cooldown running makes no positions query, no
\* candle fetch and no order request and keeps the cooldown state; and no
\* order request is made between a fill and the cooldown end time
\* (OandaTrader.run_trader, in a tick whose positions query succeeded).
C3_NoEntryDuringCooldown ==
    /\ (pc = "cooldown_sleep") =>
          /\ ~tick.queried
          /\ tick.fetches = 0
          /\ tick.orders = 0
          /\ cooldown_active
          /\ last_trade_exit_time # None
    /\ (program = "trader" /\ fill_to_order # None /\ ~tick.query_failed) =>
          fill_to_order[1] >= CooldownSeconds

\* C4: in a tick whose positions query raised, no order is requested: the
\* failure is not read as "no open position" (OandaTrader.run_trader).
C4_QueryFaultIsTransient ==
    (program = "trader" /\ tick.query_failed) => tick.orders = 0

\* C5: in a tick whose candle fetch returned nothing or fewer than
\* lookback_period + buffer - 10 bars, no signal is evaluated and no order is
\* requested; the tick goes to the 30 s sleep and then to the next tick, with
\* the controller state unchanged.
C5_InsufficientData ==
    /\ [](ShortFrame =>
            /\ tick.signals = 0
            /\ tick.price_fetches = 0
            /\ tick.orders = 0
            /\ pc \in {"data", "data_sleep", "stopped"})
    /\ [][(ShortFrame /\ pc' # "stopped") =>
            /\ UNCHANGED state
            /\ (pc = "data") => (pc' = "data_sleep")
            /\ (pc = "data_sleep") => (pc' = "loop" /\ now' = now + data_sleep)]_vars

C5_Witness ==
    /\ pc = "data_sleep"
    /\ df # None
    /\ df[1].len = 5

\* C6: in a tick in which the last row's signal is neither 1 nor -1, no order
\* is requested and the controller state is unchanged; the tick goes to the
\* end-of-tick sleep.
C6_NoSignalNoOrder ==
    /\ []((RowComputed /\ df[1].signal \notin {1, -1}) =>
            /\ tick.price_fetches = 0
            /\ tick.orders = 0
            /\ pc \in {"entry", "sleep", "stopped"})
    /\ [][(RowComputed /\ df[1].signal \notin {1, -1}) => UNCHANGED state]_vars

C6_Witness ==
    /\ RowComputed
    /\ df[1].signal = 2
    /\ pc = "sleep"

\* C7: when place_order returned None, the loop does not set cooldown_active,
\* stays Flat and goes to the end-of-tick sleep, from which the next tick
\* starts.
C7_RejectedOrderNoCooldown ==
    [][(pc = "result" /\ fill_info = None /\ pc' # "stopped") =>
          /\ pc' = "sleep"
          /\ ~cooldown_active'
          /\ UNCHANGED state]_vars

C7_Witness ==
    /\ pc = "sleep"
    /\ tick.orders = 1
    /\ ~tick.filled
    /\ fill_info = None
    /\ ~cooldown_active

\* C8: a tick makes at most one order request, and between two order requests
\* there is a positions query.
C8_OneOrderPerSnapshot ==
    /\ tick.orders <= 1
    /\ orders_since_query <= 1

C8_Witness ==
    /\ fill_to_order # None
    /\ orders_since_query = 1
    /\ tick.orders = 1

\* C9: the levels place_order computes are direction-symmetric: for a long,
\* reference - stop and target - reference are the pip distances times the pip
\* size; for a short, stop - reference and reference - target are.
C9_PipConversionSymmetric ==
    (pc = "result" /\ tick.orders = 1 /\ stop_loss_pips >= 0 /\ take_profit_pips >= 0) =>
        /\ (units > 0) =>
              /\ (current_price - sl_price) * PipDen = stop_loss_pips * pip_value
              /\ (tp_price - current_price) * PipDen = take_profit_pips * pip_value
        /\ (units < 0) =>
              /\ (sl_price - current_price) * PipDen = stop_loss_pips * pip_value
              /\ (current_price - tp_price) * PipDen = take_profit_pips * pip_value

C9_Witness ==
    /\ pc = "result"
    /\ tick.orders = 1
    /\ units < 0
    /\ stop_loss_pips = 124
    /\ sl_price = current_price + 1240

\* C10: in OandaTrader.run_trader, the order requested for a Long row has
\* units = +trade_units, for a Short row units = -trade_units, and its levels
\* are the five-decimal prices nearest to the reference price moved by that
\* row's distances; reference 1.10000 with sl 50 and tp 100 gives stop 1.09500
\* and target 1.11000.
C10_SignalToOrder ==
    (program = "trader" /\ pc = "result" /\ tick.orders = 1
       /\ df[1].stop_loss_pips >= 0 /\ df[1].take_profit_pips >= 0) =>
        LET row == df[1]
            o == order_data[1]
            side == IF row.signal = 1 THEN 1 ELSE -1
        IN  /\ tick.orders = 1
            /\ o.instrument = instrument
            /\ o.units = side * trade_units
            /\ 2 * Abs(o.stopLossOnFill * PriceStep
                       - (current_price - side * row.stop_loss_pips * PriceStep)) <= PriceStep
            /\ 2 * Abs(o.takeProfitOnFill * PriceStep
                       - (current_price + side * row.take_profit_pips * PriceStep)) <= PriceStep
            /\ (row.signal = 1 /\ current_price = 1100000 /\ row.stop_loss_pips = 500
                  /\ row.take_profit_pips = 1000) =>
                  (o.stopLossOnFill = 109500 /\ o.takeProfitOnFill = 111000 /\ o.units > 0)

C10_Witness ==
    /\ program = "trader"
    /\ pc = "result"
    /\ open_positions = <<>>
    /\ df[1].signal = 1
    /\ df[1].stop_loss_pips = 500
    /\ df[1].take_profit_pips = 1000
    /\ current_price = 1100000
    /\ order_data = Some([instrument |-> instrument, units |-> 1000,
                          stopLossOnFill |-> 109500, takeProfitOnFill |-> 111000])

\* place_order was called in this tick with nonzero units and non-negative
\* distances, and has returned.
PlaceOrderReturned ==
    /\ pc = "result"
    /\ units # 0
    /\ stop_loss_pips >= 0
    /\ take_profit_pips >= 0

\* C11 as stated: every invocation of place_order with nonzero units and
\* non-negative distances makes exactly one order request.
C11_ExactlyOneRequest ==
    PlaceOrderReturned => tick.orders = 1

\* C11: an invocation of place_order makes at most one order request, whatever
\* the venue answers: exactly one when the reference price was resolved, none
\* when it was not.
C11_AtMostOneRequest ==
    /\ tick.orders <= tick.price_fetches
    /\ tick.price_fetches <= 1
    /\ PlaceOrderReturned =>
          /\ tick.price_fetches = 1
          /\ tick.priced => tick.orders = 1
          /\ ~tick.priced => tick.orders = 0

C11_Witness ==
    /\ PlaceOrderReturned
    /\ tick.priced
    /\ tick.response = "other"
    /\ tick.orders = 1

\* C12: place_order returns the fill details if and only if the venue's answer
\* holds a fill transaction; for a cancel transaction, any other answer and an
\* exception of the request it returns None.
C12_ResponseClassification ==
    (pc = "result" /\ tick.orders = 1) =>
        /\ (tick.response = "fill") => (fill_info = Some([units |-> units]))
        /\ (tick.response \in {"cancel", "other", "raise"}) => (fill_info = None)

C12_Witness ==
    /\ pc = "result"
    /\ tick.orders = 1
    /\ tick.response = "cancel"
    /\ fill_info = None

\* A fault has happened in the current tick: insufficient data, a failed
\* positions query, an exception on its way to the handler, or an order that
\* place_order could not get filled.
Faulted ==
    \/ pc = "data_sleep"
    \/ pc = "except"
    \/ tick.query_failed
    \/ tick.indicator_failed
    \/ (pc = "result" /\ fill_info = None)

\* C13: with no operator interrupt, no fault ends the loop, and after every
\* fault the loop comes back to its top, where the next tick starts.
C13_NoFaultIsFatal ==
    /\ [](pc \notin {"stopped", "crashed"})
    /\ Faulted ~> (pc = "loop")

C13_Witness ==
    /\ pc = "positions"
    /\ ticks = 2
    /\ now = data_sleep

\* A tick that did not raise ends: the loop goes from one of its sleeps to its
\* top.
TickEnds ==
    /\ pc \in {"sleep", "data_sleep", "cooldown_sleep"}
    /\ pc' = "loop"

\* C14 as stated: every tick that does not raise ends with one sleep of the
\* poll interval, whatever the tick did.
C14_UniformSleep ==
    [][TickEnds => now' = now + sleep_duration]_vars

\* C14: every tick that does not raise ends with exactly one sleep before the
\* next tick starts: of the poll interval after an in-position observation, no
\* signal or an order attempt, of a fixed 60 s in the cooldown wait, and of a
\* fixed 30 s after insufficient data.
C14_SleepPerTickEnd ==
    /\ [][TickEnds =>
            /\ (pc = "sleep") => (now' = now + sleep_duration)
            /\ (pc = "cooldown_sleep") => (now' = now + cooldown_sleep)
            /\ (pc = "data_sleep") => (now' = now + data_sleep)]_vars
    /\ [][(pc' = "loop" /\ pc # "loop") => now' > now]_vars
    /\ [][(pc = "loop" /\ pc' \notin {"loop", "stopped"}) => now' = now]_vars

\* A cooldown wait, then the tick that ends the cooldown and finds too few
\* bars.
C14_Witness ==
    /\ pc = "loop"
    /\ ticks = 2
    /\ ~cooldown_active
    /\ now = cooldown_end_time(0) + data_sleep

\* The cooldown check of a tick that starts in cooldown has run.
CooldownChecked ==
    /\ pc = "loop"
    /\ pc' \notin {"loop", "stopped"}
    /\ cooldown_active
    /\ last_trade_exit_time # None

BarSeconds(g) ==
    IF g = "M1" THEN 60
    ELSE IF g = "H1" THEN SecondsPerHour
    ELSE 24 * SecondsPerHour

UndefinedDistance ==
    /\ RowComputed
    /\ df[1].signal \in {1, -1}
    /\ \/ df[1].stop_loss_pips \in {NaN, NoDistance}
       \/ df[1].take_profit_pips \in {NaN, NoDistance}

\* C17: in OandaTrader.run_trader, a tick whose last row has signal 1 or -1
\* and an undefined stop_loss_pips or take_profit_pips makes no order request.
C17_UndefinedDistanceNoOrder ==
    (program = "trader" /\ UndefinedDistance) => tick.orders = 0

\* C18: an operator interrupt arriving at any point of the loop ends it
\* through the interrupt handler; none leaves run_trader as an exception.
C18_CleanCancellation ==
    pc # "crashed"

\* C19: in a tick in which an indicator function raised, the signal function
\* is not evaluated, no order is requested, and the tick ends on the fault
\* path.
C19_IndicatorFaultIsTransient ==
    (program = "trader" /\ tick.indicator_failed) =>
        /\ tick.signals = 0
        /\ tick.orders = 0
        /\ pc = "except"

\* C20: when an exception has reached the loop's handler, cooldown_active and
\* last_trade_exit_time are what they were when the tick started, also in a
\* tick whose order was filled before the exception.
C20_SamePhaseAfterFault ==
    (pc = "except") =>
        /\ cooldown_active = tick.start_active
        /\ last_trade_exit_time = tick.start_exit

C20_Witness ==
    /\ pc = "except"
    /\ program = "trader"
    /\ tick.filled
    /\ fill_info # None

\* C21: a positions query that follows another with no change of the venue's
\* list between them classifies as the earlier one did (position for the
\* instrument present / absent).
C21_IdempotentClassification ==
    [][(pc = "positions" /\ tick'.queried /\ last_class # None) =>
          has_position' = last_class[1]]_vars

\* s is t with some of its elements left out, the others in t's order.
RECURSIVE IsSubSeq(_, _)
IsSubSeq(s, t) ==
    IF s = <<>> THEN TRUE
    ELSE IF t = <<>> THEN FALSE
    ELSE IF Head(s) = Head(t) THEN IsSubSeq(Tail(s), Tail(t))
    ELSE IsSubSeq(s, Tail(t))

\* The candle was marked complete by the venue and carries mid prices.
Usable(b) ==
    b.complete /\ b.mid

\* C22: every bar of the series get_latest_candles returned was marked
\* complete by the venue and carries mid prices, the bars are in the venue's
\* order, and the row whose signal is read, as the bar whose close serves as
\* the reference price, is such a bar of the response.
C22_OnlyCompleteBars ==
    /\ (tick.fetches > 0 /\ df # None) =>
          /\ \A i \in DOMAIN df[1].bars : Usable(df[1].bars[i])
          /\ IsSubSeq(df[1].bars, tick.data)
          /\ \A i \in DOMAIN tick.data :
                Usable(tick.data[i]) => \E k \in DOMAIN df[1].bars : df[1].bars[k] = tick.data[i]
          /\ (RowComputed /\ df[1].bars # <<>>) =>
                \E i \in DOMAIN tick.data :
                   Usable(tick.data[i]) /\ tick.data[i].close = df[1].close
    /\ tick.priced =>
          \E i \in DOMAIN tick.price_data :
             Usable(tick.price_data[i]) /\ tick.price_data[i].close = current_price

\* A response whose last bar is still forming has been through the signal
\* function.
C22_Witness ==
    /\ RowComputed
    /\ Len(tick.data) = 2
    /\ ~tick.data[2].complete
    /\ Len(df[1].bars) = 1
    /\ df[1].close = tick.data[1].close

\* place_order's price fetch of this tick resolved no reference price: the
\* request failed, returned nothing, or returned no complete bar.
Unresolved ==
    /\ tick.price_fetches = 1
    /\ \A i \in DOMAIN tick.price_data : ~Usable(tick.price_data[i])

\* C27: when place_order cannot resolve a reference price it makes no order
\* request and returns None.
C27_NoPriceNoOrder ==
    Unresolved =>
        /\ tick.orders = 0
        /\ pc # "submit"
        /\ (pc = "result") => (fill_info = None)

\* The only bar of the price fetch was incomplete.
C27_Witness ==
    /\ pc = "result"
    /\ units # 0
    /\ Len(tick.price_data) = 1
    /\ ~tick.price_data[1].complete
    /\ fill_info = None
    /\ tick.orders = 0

\* The entry the controller decides on for a last row: the units and the
\* distances it hands to place_order.
DecisionFor(p, s, sl, tp) ==
    [units |-> IF s = 1 THEN trade_units ELSE -trade_units,
     stop_loss_pips |-> IF p = "trader" THEN sl ELSE live_stop_loss_pips,
     take_profit_pips |-> IF p = "trader" THEN tp ELSE live_take_profit_pips]

\* C23: the decision and the order request of a tick are a function of the
\* last row's signal, stop_loss_pips and take_profit_pips, the configuration
\* and the reference price alone, so two series that agree on the last row
\* get the same decision and the same request whatever their earlier rows.
C23_LastRowOnly ==
    RowComputed =>
        LET s == df[1].signal
            d == DecisionFor(program, s, df[1].stop_loss_pips, df[1].take_profit_pips)
        IN  /\ latest_signal = s
            /\ (s \notin {1, -1}) => (pc \in {"entry", "sleep", "stopped"} /\ tick.orders = 0)
            /\ (s \in {1, -1} /\ pc \in {"price", "submit", "result"}) =>
                  /\ units = d.units
                  /\ stop_loss_pips = d.stop_loss_pips
                  /\ take_profit_pips = d.take_profit_pips
            /\ (s \in {1, -1} /\ tick.orders = 1) =>
                  order_data =
                     Some(OrderRequest(instrument, d.units,
                                       stop_price(d.units, current_price, d.stop_loss_pips),
                                       target_price(d.units, current_price, d.take_profit_pips)))

\* A short entry requested from a series whose earlier row asks for a long.
C23_Witness ==
    /\ RowComputed
    /\ df[1].signal = -1
    /\ df[1].earlier.signal = 1
    /\ tick.orders = 1
    /\ order_data[1].units = -trade_units

\* C24: in every reachable state of both loops cooldown_active = True implies
\* that last_trade_exit_time is a timestamp, and before the first tick the
\* controller is Flat: cooldown_active = False, last_trade_exit_time = None.
C24_StateConsistency ==
    /\ cooldown_active => last_trade_exit_time # None
    /\ (ticks = 0) => (~cooldown_active /\ last_trade_exit_time = None)

\* The state after a tick of OandaTrader.run_trader whose order was filled.
C24_Witness ==
    /\ program = "trader"
    /\ pc = "loop"
    /\ ticks = 1
    /\ last_fill # None
    /\ ~cooldown_active
    /\ last_trade_exit_time = None

\* C25: in oanda_live_trader.run_trader, in every reachable state, also after
\* filled orders, cooldown_active = False and last_trade_exit_time = None, and
\* no tick takes the cooldown branch.
C25_LiveNeverCoolsDown ==
    (program = "live") =>
        /\ ~cooldown_active
        /\ last_trade_exit_time = None
        /\ ~tick.start_active
        /\ pc # "cooldown_sleep"

\* A second order request after an earlier fill, filled too.
C25_Witness ==
    /\ program = "live"
    /\ fill_to_order # None
    /\ tick.filled
    /\ pc = "sleep"

\* C26: a tick is classified in-position exactly when the returned list holds
\* an entry whose instrument is the configured one, whatever its long and
\* short units, both zero included; entries of other instruments do not gate.
C26_GatingByInstrument ==
    tick.queried =>
        /\ has_position <=>
              (\E i \in DOMAIN open_positions : open_positions[i].instrument = instrument)
        /\ (\A i \in DOMAIN open_positions : open_positions[i].instrument # instrument) =>
              pc # "sleep" \/ tick.fetches > 0
        /\ has_position => tick.fetches = 0

\* An entry of the instrument with zero long and zero short units gates.
C26_Witness ==
    /\ tick.queried
    /\ \E i \in DOMAIN open_positions :
          /\ open_positions[i].instrument = instrument
          /\ open_positions[i].long = 0
          /\ open_positions[i].short = 0
    /\ has_position
    /\ pc = "sleep"

====
